---- MODULE Spec2Model ----
(***************************************************************************)
(* A model of made.js: the Basis class (src/src/basis/basis.js) and the    *)
(* hashing part of the Material class (src/unnamed/part_000).              *)
(*                                                                         *)
(* Numbers.  JavaScript numbers are modelled as fixed-point integers: the  *)
(* integer k stands for the number k / Den.  Every arithmetic result that  *)
(* is not a multiple of 1/Den is rounded to the nearest one, which plays   *)
(* the part of floating-point rounding (much coarser than a double's).     *)
(* Strings are sequences of character codes, so that Array.prototype.sort  *)
(* (code-unit order) and string equality are computed, not assumed.        *)
(***************************************************************************)
EXTENDS Integers, Sequences, FiniteSets, TLC

VARIABLES elements, coordinates, units, cell, last, tasks, material

vars == <<elements, coordinates, units, cell, last, tasks, material>>

(***************************************************************************)
(* Bounds of the model                                                     *)
(***************************************************************************)
MaxAtoms == 2
MaxSteps == 2
MaxProperties == 2
MaxElements == 4

(***************************************************************************)
(* Constants of the program                                                *)
(***************************************************************************)
HASH_TOLERANCE == 3

Den == 10 ^ (HASH_TOLERANCE + 1)

tolerance == Den \div (10 ^ HASH_TOLERANCE)

crystal == "crystal"

cartesian == "cartesian"

ATOMIC_COORD_UNITS == {crystal, cartesian}

Undefined == "undefined"

Symbols == {"Si", "Ge"}

\* the character codes of the element symbols
SymbolChars(e) ==
    IF e = "Si" THEN <<83, 105>>
    ELSE IF e = "Ge" THEN <<71, 101>>
    ELSE <<67, 117>>

\* the symbols of the element lists whose counts and formulas are computed
FormulaSymbols == Symbols \cup {"Cu"}

\* getElectronegativity, in hundredths: silicon and copper tie
getElectronegativity(e) == IF e = "Ge" THEN 201 ELSE 190

(***************************************************************************)
(* math                                                                    *)
(***************************************************************************)
Abs(x) == IF x < 0 THEN -x ELSE x

\* a / b rounded to the nearest integer, halves away from zero (b > 0)
RoundDiv(a, b) ==
    IF a >= 0 THEN (a + b \div 2) \div b ELSE -(((-a) + b \div 2) \div b)

Det3(m) ==
      m[1][1] * (m[2][2] * m[3][3] - m[2][3] * m[3][2])
    - m[1][2] * (m[2][1] * m[3][3] - m[2][3] * m[3][1])
    + m[1][3] * (m[2][1] * m[3][2] - m[2][2] * m[3][1])

Nxt(i) == (i % 3) + 1

\* cofactor (i, j) of a 3x3 matrix, by the cyclic formula
Cof(m, i, j) ==
      m[Nxt(i)][Nxt(j)] * m[Nxt(Nxt(i))][Nxt(Nxt(j))]
    - m[Nxt(i)][Nxt(Nxt(j))] * m[Nxt(Nxt(i))][Nxt(j)]

\* math.inv: the inverse of a matrix of whole numbers, its entries in 1/Den
inv(m) ==
    LET d == Det3(m)
        s == IF d < 0 THEN -1 ELSE 1
    IN  [i \in 1..3 |-> [j \in 1..3 |-> RoundDiv(s * Cof(m, j, i) * Den, Abs(d))]]

\* math.multiply(point, unitCell): row vector times a matrix of whole numbers
multiply(point, m) ==
    [j \in 1..3 |-> point[1] * m[1][j] + point[2] * m[2][j] + point[3] * m[3][j]]

\* math.multiply(point, math.inv(unitCell)): the matrix entries are in 1/Den
multiplyInv(point, mi) ==
    [j \in 1..3 |->
        RoundDiv(point[1] * mi[1][j] + point[2] * mi[2][j] + point[3] * mi[3][j], Den)]

\* math.mod: the modulo-1 wrap into [0, 1)
mod(x) == x % Den

\* math.round(x, HASH_TOLERANCE): the result counts units of 10^-HASH_TOLERANCE
round(x) == RoundDiv(x, tolerance)

add(x, v) == [j \in 1..3 |-> x[j] + v[j]]

vDist2(a, b) ==
    (a[1] - b[1]) * (a[1] - b[1]) + (a[2] - b[2]) * (a[2] - b[2])
        + (a[3] - b[3]) * (a[3] - b[3])

RECURSIVE ISqrt(_, _, _)
\* the integer square root of n, by bisection on lo..hi
ISqrt(n, lo, hi) ==
    IF lo >= hi THEN lo
    ELSE LET mid == (lo + hi + 1) \div 2
         IN  IF mid * mid <= n THEN ISqrt(n, mid, hi) ELSE ISqrt(n, lo, mid - 1)

Coarse(a) == [j \in 1..3 |-> RoundDiv(a[j], tolerance)]

\* math.vDist: the Euclidean distance.  Separations of ten tolerances or more
\* are computed to the resolution of the tolerance (32-bit arithmetic).
vDist(a, b) ==
    IF \A j \in 1..3 : Abs(a[j] - b[j]) < 10 * tolerance
    THEN ISqrt(vDist2(a, b), 0, 20 * tolerance)
    ELSE tolerance * ISqrt(vDist2(Coarse(a), Coarse(b)), 0, 2 ^ 15)

\* math.roundToZero(d) === 0: the distance is below the tolerance
roundToZeroIsZero(d) == d < tolerance

RECURSIVE precise(_, _)
\* math.precise(x, 4): x to four significant digits (x >= 0, p a power of ten)
precise(x, p) ==
    IF x < 10000 * p THEN RoundDiv(x, p) * p ELSE precise(x, 10 * p)

(***************************************************************************)
(* ArrayWithIds: an ordered sequence of <<id, value>> entries              *)
(***************************************************************************)
\* new ArrayWithIds(array) for an array of plain values: ids 0, 1, ...
ArrayWithIds(array) ==
    [i \in 1..Len(array) |-> [id |-> i - 1, value |-> array[i]]]

array(a) == [i \in 1..Len(a) |-> a[i].value]

ids(a) == {a[i].id : i \in 1..Len(a)}

\* the values held, as a set: the domain of the functions mapped over them
values(a) == {a[i].value : i \in 1..Len(a)}

\* mapArrayInPlace(fn), for a function fn given on the values held
mapArrayInPlace(a, fn) ==
    [i \in 1..Len(a) |-> [id |-> a[i].id, value |-> fn[a[i].value]]]

RemoveAt(a, k) == [i \in 1..(Len(a) - 1) |-> IF i < k THEN a[i] ELSE a[i + 1]]

\* the first position whose entry is one of the matching ones, 0 when none is
FirstIndex(a, matching) ==
    IF \E i \in 1..Len(a) : a[i] \in matching
    THEN CHOOSE i \in 1..Len(a) :
            a[i] \in matching /\ \A j \in 1..(i - 1) : a[j] \notin matching
    ELSE 0

\* getArrayIndexByPredicate: the index (from 0) of the first value for which
\* the predicate, a function on the values held, is true; -1 when there is none
getArrayIndexByPredicate(a, predicate) ==
    FirstIndex(a, {a[i] : i \in {j \in 1..Len(a) : predicate[a[j].value]}}) - 1

FreshId(a) ==
    IF Len(a) = 0 THEN 0
    ELSE 1 + (CHOOSE m \in ids(a) : \A n \in ids(a) : n <= m)

\* addElement: appends the value with a freshly minted id
addElement(a, el) == Append(a, [id |-> FreshId(a), value |-> el])

\* an optional id argument: <<>> when it is not supplied, <<id>> when it is
NoId == <<>>

\* removeElement removing the last entry when no entry matches
removeElement_LastWhenNotFound(a, el, id) ==
    LET entries == {a[i] : i \in 1..Len(a)}
        k == IF id # NoId THEN FirstIndex(a, {e \in entries : e.id = id[1]})
             ELSE FirstIndex(a, {e \in entries : e.value = el})
    IN  IF Len(a) = 0 THEN a
        ELSE IF k = 0 THEN RemoveAt(a, Len(a)) ELSE RemoveAt(a, k)

\* removeElement(el, id): removes the first matching entry, by id when an id
\* is supplied and by value otherwise; nothing when no entry matches
removeElement(a, el, id) ==
    LET entries == {a[i] : i \in 1..Len(a)}
        k == IF id # NoId THEN FirstIndex(a, {e \in entries : e.id = id[1]})
             ELSE FirstIndex(a, {e \in entries : e.value = el})
    IN  IF k = 0 THEN a ELSE RemoveAt(a, k)

(***************************************************************************)
(* Basis: a record [elements, coordinates, units, cell]                    *)
(***************************************************************************)
\* Basis.toCartesian
toCartesian(b) ==
    LET unitCell == b.cell
        F == [point \in values(b.coordinates) |-> multiply(point, unitCell)]
    IN  IF b.units = cartesian THEN b
        ELSE [b EXCEPT !.coordinates = mapArrayInPlace(b.coordinates, F),
                       !.units = cartesian]

\* toCrystal with the cell in place of its inverse
toCrystal_NoInverse(b) ==
    LET unitCell == b.cell
        F == [point \in values(b.coordinates) |-> multiply(point, unitCell)]
    IN  IF b.units = crystal THEN b
        ELSE [b EXCEPT !.coordinates = mapArrayInPlace(b.coordinates, F),
                       !.units = crystal]

\* Basis.toCrystal
toCrystal(b) ==
    LET unitCell == b.cell
        F == [point \in values(b.coordinates) |-> multiplyInv(point, inv(unitCell))]
    IN  IF b.units = crystal THEN b
        ELSE [b EXCEPT !.coordinates = mapArrayInPlace(b.coordinates, F),
                       !.units = crystal]

\* toStandardRepresentation without its call of toCrystal
toStandardRepresentation_NoToCrystal(b) ==
    LET F == [point \in values(b.coordinates) |-> [j \in 1..3 |-> mod(point[j])]]
    IN  [b EXCEPT !.coordinates = mapArrayInPlace(b.coordinates, F)]

\* Basis.toStandardRepresentation
toStandardRepresentation(b) ==
    LET c == toCrystal(b)
        F == [point \in values(c.coordinates) |-> [j \in 1..3 |-> mod(point[j])]]
    IN  [c EXCEPT !.coordinates = mapArrayInPlace(c.coordinates, F)]

\* Basis.toJSON: the picked fields; the entries carry their ids
toJSON(b) ==
    [elements |-> b.elements, coordinates |-> b.coordinates,
     units |-> b.units, cell |-> b.cell]

\* get Basis.standardRepresentation: the object afterwards and the result
standardRepresentation(b) ==
    LET originalUnits == b.units
        t == toStandardRepresentation(b)
        result == toJSON(t)
    IN  [this |-> IF originalUnits # crystal THEN toCartesian(t) ELSE t,
         result |-> result]

\* Basis.addAtom
addAtom(b, element, coordinate) ==
    [b EXCEPT !.elements = addElement(b.elements, element),
              !.coordinates = addElement(b.coordinates, coordinate)]

\* Basis.removeAtom
removeAtom(b, element, coordinate, id) ==
    IF element # Undefined /\ Len(coordinate) > 0
    THEN [b EXCEPT !.elements = removeElement(b.elements, element, id),
                   !.coordinates = removeElement(b.coordinates, coordinate, id)]
    ELSE b

\* Basis.removeAtomAtCoordinate
removeAtomAtCoordinate(b, coordinate) ==
    LET P == [arrayCoordinate \in values(b.coordinates) |->
                 roundToZeroIsZero(vDist(arrayCoordinate, coordinate))]
        index == getArrayIndexByPredicate(b.coordinates, P)
    IN  IF Len(coordinate) > 0 /\ index > -1
        THEN [b EXCEPT !.elements = removeElement(b.elements, Undefined, <<index>>),
                       !.coordinates = removeElement(b.coordinates, Undefined, <<index>>)]
        ELSE b

\* Basis.translateByVector
translateByVector(b, translationVector) ==
    LET F == [x \in values(b.coordinates) |-> add(x, translationVector)]
    IN  [b EXCEPT !.coordinates = mapArrayInPlace(b.coordinates, F)]

(***************************************************************************)
(* Strings, as sequences of character codes                                *)
(***************************************************************************)
RECURSIVE Digits(_)
\* the decimal digits of a natural number
Digits(n) == IF n < 10 THEN <<48 + n>> ELSE Digits(n \div 10) \o <<48 + (n % 10)>>

RECURSIVE FracDigits(_, _)
\* the w-digit fraction f without its trailing zeros
FracDigits(f, w) ==
    IF f = 0 THEN <<>>
    ELSE LET p == 10 ^ (w - 1)
         IN  <<48 + (f \div p)>> \o FracDigits(f % p, w - 1)

\* Number.prototype.toString of m / 10^HASH_TOLERANCE: "0.25", "1", "-0.5"
NumberToString(m) ==
    LET p == 10 ^ HASH_TOLERANCE
        a == Abs(m)
        f == a % p
    IN  (IF m < 0 THEN <<45>> ELSE <<>>) \o Digits(a \div p)
            \o (IF f = 0 THEN <<>> ELSE <<46>> \o FracDigits(f, HASH_TOLERANCE))

\* Array.prototype.join() of three numbers: separated by commas
join(toleratedCoordinates) ==
    NumberToString(toleratedCoordinates[1]) \o <<44>>
        \o NumberToString(toleratedCoordinates[2]) \o <<44>>
        \o NumberToString(toleratedCoordinates[3])

RECURSIVE StrLess(_, _)
\* s < t by code units, as Array.prototype.sort compares strings
StrLess(s, t) ==
    IF Len(t) = 0 THEN FALSE
    ELSE IF Len(s) = 0 THEN TRUE
    ELSE IF s[1] # t[1] THEN s[1] < t[1]
    ELSE StrLess(Tail(s), Tail(t))

RECURSIVE Insert(_, _)
Insert(sorted, x) ==
    IF Len(sorted) = 0 THEN <<x>>
    ELSE IF StrLess(x, sorted[1]) THEN <<x>> \o sorted
    ELSE <<sorted[1]>> \o Insert(Tail(sorted), x)

RECURSIVE sort(_)
\* Array.prototype.sort() of an array of strings
sort(strs) == IF Len(strs) = 0 THEN <<>> ELSE Insert(sort(Tail(strs)), strs[1])

RECURSIVE joinSemicolon(_)
\* strs.join(";")
joinSemicolon(strs) ==
    IF Len(strs) = 0 THEN <<>>
    ELSE IF Len(strs) = 1 THEN strs[1]
    ELSE strs[1] \o <<59>> \o joinSemicolon(Tail(strs))

(***************************************************************************)
(* Basis: the fingerprint and the reads that convert and restore           *)
(***************************************************************************)
\* get Basis.elementsAndCoordinatesArray pairs each element with
\* getCoordinateByIndex(idx): undefined when no coordinate is at that index,
\* and the caller's coordinate.map then throws a TypeError
HasUndefinedCoordinate(b) == Len(b.elements) > Len(b.coordinates)

Threw == [threw |-> TRUE, value |-> "TypeError"]

Returned(v) == [threw |-> FALSE, value |-> v]

\* getAsSortedString without the sort of the per-atom strings
getAsSortedString_NoSort(b) ==
    LET clsInstance == toStandardRepresentation(toJSON(b))
        entry(i) ==
            LET element == clsInstance.elements[i].value
                coordinate == clsInstance.coordinates[i].value
                toleratedCoordinates == [j \in 1..3 |-> round(coordinate[j])]
            IN  SymbolChars(element) \o <<32>> \o join(toleratedCoordinates)
        standardRep == [i \in 1..Len(clsInstance.elements) |-> entry(i)]
    IN  IF HasUndefinedCoordinate(clsInstance) THEN Threw
        ELSE Returned(joinSemicolon(standardRep) \o <<59>>)

\* getAsSortedString with the element left out of the per-atom strings
getAsSortedString_NoElement(b) ==
    LET clsInstance == toStandardRepresentation(toJSON(b))
        entry(i) ==
            LET coordinate == clsInstance.coordinates[i].value
                toleratedCoordinates == [j \in 1..3 |-> round(coordinate[j])]
            IN  join(toleratedCoordinates)
        standardRep == [i \in 1..Len(clsInstance.elements) |-> entry(i)]
    IN  IF HasUndefinedCoordinate(clsInstance) THEN Threw
        ELSE Returned(joinSemicolon(sort(standardRep)) \o <<59>>)

\* Basis.getAsSortedString, on a copy made from toJSON
getAsSortedString(b) ==
    LET clsInstance == toStandardRepresentation(toJSON(b))
        entry(i) ==
            LET element == clsInstance.elements[i].value
                coordinate == clsInstance.coordinates[i].value
                toleratedCoordinates == [j \in 1..3 |-> round(coordinate[j])]
            IN  SymbolChars(element) \o <<32>> \o join(toleratedCoordinates)
        standardRep == [i \in 1..Len(clsInstance.elements) |-> entry(i)]
    IN  IF HasUndefinedCoordinate(clsInstance) THEN Threw
        ELSE Returned(joinSemicolon(sort(standardRep)) \o <<59>>)

\* get Basis.hashString: the object afterwards and the result
hashString(b) ==
    LET originallyInCartesianUnits == b.units = cartesian
        t == toCrystal(b)
        result == getAsSortedString(t)
    IN  IF result.threw THEN [this |-> t, result |-> result]
        ELSE [this |-> IF originallyInCartesianUnits THEN toCartesian(t) ELSE t,
              result |-> result]

RECURSIVE MaxOver(_, _)
\* the largest member of a finite set of naturals, at least m
MaxOver(S, m) ==
    IF S = {} THEN m
    ELSE LET x == CHOOSE y \in S : TRUE
         IN  MaxOver(S \ {x}, IF x > m THEN x ELSE m)

\* the loop of maxPairwiseDistance over the pairs i < j of the Basis as it is
maxDistance(t) ==
    LET n == Len(t.elements)
        pairs == {p \in (1..n) \X (1..n) : p[1] < p[2]}
    IN  MaxOver({vDist(t.coordinates[p[1]].value, t.coordinates[p[2]].value) :
                    p \in pairs}, 0)

\* get Basis.maxPairwiseDistance: the object afterwards and the result; vDist
\* of a missing coordinate throws a TypeError
maxPairwiseDistance(b) ==
    LET originalUnits == b.units
        t == toCartesian(b)
    IN  IF Len(t.elements) >= 2 /\ HasUndefinedCoordinate(t)
        THEN [this |-> t, result |-> Threw]
        ELSE [this |-> IF originalUnits # cartesian THEN toCrystal(t) ELSE t,
              result |-> Returned(precise(maxDistance(t), 1))]

(***************************************************************************)
(* Basis: element counts and formulas                                      *)
(***************************************************************************)
RECURSIVE InsertBy(_, _, _)
\* x put into a sorted list before the first entry it comes before
InsertBy(sorted, x, before) ==
    IF Len(sorted) = 0 THEN <<x>>
    ELSE IF <<x, sorted[1]>> \in before THEN <<x>> \o sorted
    ELSE <<sorted[1]>> \o InsertBy(Tail(sorted), x, before)

RECURSIVE sortBy(_, _)
\* _.sortBy, a stable sort; before holds the pairs <<x, y>> of entries in
\* which the criterion of x is less than that of y
sortBy(list, before) ==
    IF Len(list) = 0 THEN <<>>
    ELSE InsertBy(sortBy(SubSeq(list, 1, Len(list) - 1), before), list[Len(list)], before)

\* the criterion "value": the symbols compared as strings
ByValue(list) ==
    {p \in values(list) \X values(list) : StrLess(SymbolChars(p[1]), SymbolChars(p[2]))}

\* the criterion getElectronegativity(x.value)
ByElectronegativity(list) ==
    {p \in values(list) \X values(list) :
        getElectronegativity(p[1]) < getElectronegativity(p[2])}

RECURSIVE countBy(_)
\* _.countBy by value: an object, its keys in the order of their first
\* appearance, held as a sequence of [key, count]
countBy(list) ==
    IF Len(list) = 0 THEN <<>>
    ELSE LET counts == countBy(SubSeq(list, 1, Len(list) - 1))
             key == list[Len(list)]
             at == {k \in 1..Len(counts) : counts[k].key = key}
         IN  IF at = {} THEN Append(counts, [key |-> key, count |-> 1])
             ELSE [k \in 1..Len(counts) |->
                      IF k \in at THEN [key |-> key, count |-> counts[k].count + 1]
                      ELSE counts[k]]

\* get Basis.uniqueElementCountsSortedByElectronegativity
uniqueElementCountsSortedByElectronegativity(b) ==
    LET els == array(b.elements)
    IN  countBy(sortBy(sortBy(els, ByValue(b.elements)), ByElectronegativity(b.elements)))

RECURSIVE ElementCountsAfter(_, _)
\* the elementCounts array after the forEach has visited n elements
ElementCountsAfter(els, n) ==
    IF n = 0 THEN <<>>
    ELSE LET elementCounts == ElementCountsAfter(els, n - 1)
             element == els[n]
         IN  IF n > 1 /\ els[n - 1].value = element.value
             THEN [elementCounts EXCEPT ![Len(elementCounts)].count = @ + 1]
             ELSE Append(elementCounts, [count |-> 1, value |-> element.value])

\* elementCounts counting every symbol once, wherever it occurs
elementCounts_Grouped(b) ==
    LET counts == countBy(array(b.elements))
    IN  [k \in 1..Len(counts) |-> [count |-> counts[k].count, value |-> counts[k].key]]

\* get Basis.elementCounts
elementCounts(b) == ElementCountsAfter(b.elements, Len(b.elements))

RECURSIVE gcd2(_, _)
gcd2(a, b) == IF b = 0 THEN a ELSE gcd2(b, a % b)

RECURSIVE gcd(_)
\* math.gcd(...countsValues), of two or more counts
gcd(countsValues) ==
    IF Len(countsValues) = 1 THEN countsValues[1]
    ELSE gcd2(countsValues[1], gcd(Tail(countsValues)))

RECURSIVE reduce(_)
\* items.reduce((mem, item) => mem + item, "")
reduce(items) ==
    IF Len(items) = 0 THEN <<>>
    ELSE reduce(SubSeq(items, 1, Len(items) - 1)) \o items[Len(items)]

\* get Basis.unitCellFormula
unitCellFormula(b) ==
    LET counts == uniqueElementCountsSortedByElectronegativity(b)
    IN  reduce([k \in 1..Len(counts) |->
                   SymbolChars(counts[k].key)
                       \o (IF counts[k].count = 1 THEN <<>> ELSE Digits(counts[k].count))])

\* formula without the division by the greatest common divisor
formula_Unreduced(b) == unitCellFormula(b)

\* get Basis.formula
formula(b) ==
    LET counts == uniqueElementCountsSortedByElectronegativity(b)
        countsValues == [k \in 1..Len(counts) |-> counts[k].count]
        _gcd == IF Len(countsValues) > 1 THEN gcd(countsValues)
                ELSE IF Len(countsValues) = 1 THEN countsValues[1]
                ELSE 0
    IN  reduce([k \in 1..Len(counts) |->
                   SymbolChars(counts[k].key)
                       \o (IF counts[k].count \div _gcd = 1 THEN <<>>
                           ELSE Digits(counts[k].count \div _gcd))])

\* new Basis(config), for a config of plain element and coordinate arrays
Basis(cfg) ==
    LET _units == IF cfg.units = Undefined THEN crystal ELSE cfg.units
        _elements == IF cfg.isEmpty THEN <<>> ELSE cfg.elements
        _coordinates == IF cfg.isEmpty THEN <<>> ELSE cfg.coordinates
    IN  [elements |-> ArrayWithIds(_elements),
         coordinates |-> ArrayWithIds(_coordinates),
         units |-> _units,
         cell |-> cfg.cell]

(***************************************************************************)
(* The inputs the model draws from                                         *)
(***************************************************************************)
Points == {<<2500, 2500, 2500>>, <<12500, -7500, 5004>>}

\* within the tolerance of the first point, and far from every point
NearPoint == <<2504, 2500, 2500>>

Vectors == {<<Den, 0, 0>>}

Cells == {<< <<1, 1, 0>>, <<0, 1, 0>>, <<0, 0, 1>> >>,
          << <<3, 0, 0>>, <<0, 3, 0>>, <<0, 0, 3>> >>}

SeqsUpTo(S, n) == UNION {[1..k -> S] : k \in 0..n}

Configs ==
    [elements : SeqsUpTo(Symbols, MaxAtoms),
     coordinates : SeqsUpTo(Points, MaxAtoms),
     units : ATOMIC_COORD_UNITS \cup {Undefined},
     cell : Cells,
     isEmpty : BOOLEAN]

\* the configs whose element and coordinate lists are equally long
ValidConfigs == {c \in Configs : Len(c.elements) = Len(c.coordinates)}

(***************************************************************************)
(* The Basis object as a state machine                                     *)
(***************************************************************************)
This == [elements |-> elements, coordinates |-> coordinates,
         units |-> units, cell |-> cell]

Snapshot(b) == [elements |-> b.elements, coordinates |-> b.coordinates, units |-> b.units]

Becomes(b) ==
    /\ elements' = b.elements
    /\ coordinates' = b.coordinates
    /\ units' = b.units
    /\ cell' = b.cell

Reads == {"standardRepresentation", "hashString", "maxPairwiseDistance"}

\* the record of the last call: its name, arguments and result, the object
\* before it (pre), the call before it (prev) and the object before that one
\* (pre2), the object before the first of the reads made in a row up to now
\* (first), and the number of calls made so far
Did(op, args, result) ==
    last' = [op |-> op, args |-> args, pre |-> Snapshot(This), result |-> result,
             prev |-> last.op, pre2 |-> last.pre,
             first |-> IF op \in Reads /\ last.op \in Reads THEN last.first
                       ELSE Snapshot(This),
             n |-> last.n + 1]

Constructed(cfg) ==
    /\ elements = Basis(cfg).elements
    /\ coordinates = Basis(cfg).coordinates
    /\ units = Basis(cfg).units
    /\ cell = Basis(cfg).cell
    /\ last = [op |-> "constructor", args |-> cfg, pre |-> Snapshot(Basis(cfg)),
               result |-> Returned(<<>>), prev |-> "constructor",
               pre2 |-> Snapshot(Basis(cfg)), first |-> Snapshot(Basis(cfg)), n |-> 0]

NoTasks == <<>>

NoMaterial == [isNonPeriodic |-> <<>>, derivedProperties |-> <<>>]

Rest == UNCHANGED <<tasks, material>>

Init ==
    /\ \E cfg \in ValidConfigs : Constructed(cfg)
    /\ tasks = NoTasks
    /\ material = NoMaterial

AddAtom ==
    \E element \in Symbols, coordinate \in Points :
        /\ last.n < MaxSteps
        /\ Becomes(addAtom(This, element, coordinate))
        /\ Did("addAtom", <<element, coordinate>>, Returned(<<>>))
        /\ Rest

RemoveAtomArgs ==
    (Symbols \X Points \X {NoId, <<1>>})
        \cup {<<Undefined, <<>>, <<0>> >>, <<Undefined, <<>>, <<1>> >>, <<"Si", <<>>, NoId>>}

RemoveAtom ==
    \E args \in RemoveAtomArgs :
        /\ last.n < MaxSteps
        /\ Becomes(removeAtom(This, args[1], args[2], args[3]))
        /\ Did("removeAtom", args, Returned(<<>>))
        /\ Rest

RemoveAtomAtCoordinate ==
    \E coordinate \in {NearPoint, <<12500, -7500, 5004>>, <<>>} :
        /\ last.n < MaxSteps
        /\ Becomes(removeAtomAtCoordinate(This, coordinate))
        /\ Did("removeAtomAtCoordinate", <<coordinate>>, Returned(<<>>))
        /\ Rest

ToCartesian ==
    /\ last.n < MaxSteps
    /\ Becomes(toCartesian(This))
    /\ Did("toCartesian", <<>>, Returned(<<>>))
    /\ Rest

ToCrystal ==
    /\ last.n < MaxSteps
    /\ Becomes(toCrystal(This))
    /\ Did("toCrystal", <<>>, Returned(<<>>))
    /\ Rest

ToStandardRepresentation ==
    /\ last.n < MaxSteps
    /\ Becomes(toStandardRepresentation(This))
    /\ Did("toStandardRepresentation", <<>>, Returned(<<>>))
    /\ Rest

TranslateByVector ==
    \E translationVector \in Vectors :
        /\ last.n < MaxSteps
        /\ Becomes(translateByVector(This, translationVector))
        /\ Did("translateByVector", <<translationVector>>, Returned(<<>>))
        /\ Rest

Next ==
    \/ AddAtom
    \/ RemoveAtom
    \/ RemoveAtomAtCoordinate
    \/ ToCartesian
    \/ ToCrystal
    \/ ToStandardRepresentation
    \/ TranslateByVector

Spec == Init /\ [][Next]_vars

(***************************************************************************)
(* The reads of a Basis, on whatever the constructor accepts               *)
(***************************************************************************)
InitReads ==
    /\ \E cfg \in Configs : Constructed(cfg)
    /\ tasks = NoTasks
    /\ material = NoMaterial

StandardRepresentation ==
    /\ last.n < MaxSteps
    /\ Becomes(standardRepresentation(This).this)
    /\ Did("standardRepresentation", <<>>, Returned(standardRepresentation(This).result))
    /\ Rest

HashString ==
    /\ last.n < MaxSteps
    /\ Becomes(hashString(This).this)
    /\ Did("hashString", <<>>, hashString(This).result)
    /\ Rest

MaxPairwiseDistance ==
    /\ last.n < MaxSteps
    /\ Becomes(maxPairwiseDistance(This).this)
    /\ Did("maxPairwiseDistance", <<>>, maxPairwiseDistance(This).result)
    /\ Rest

NextReads ==
    \/ StandardRepresentation
    \/ HashString
    \/ MaxPairwiseDistance

SpecReads == InitReads /\ [][NextReads]_vars

(***************************************************************************)
(* hashString as a function of the Basis: a Basis just constructed is      *)
(* compared with a second Basis made from it                               *)
(***************************************************************************)
HashPoints == Points \cup {NearPoint}

\* changes of one coordinate component: below and above the tolerance, one
\* period, and one and a half periods
Deltas == {4, 11, Den, Den + 5000}

HashConfigs ==
    {c \in [elements : SeqsUpTo(Symbols, MaxAtoms),
            coordinates : SeqsUpTo(HashPoints, MaxAtoms),
            units : ATOMIC_COORD_UNITS,
            cell : Cells,
            isEmpty : {FALSE}] : Len(c.elements) = Len(c.coordinates)}

InitHash ==
    /\ \E cfg \in HashConfigs : Constructed(cfg)
    /\ tasks = NoTasks
    /\ material = NoMaterial

Orders(n) ==
    {f \in [1..n -> 1..n] : \A i, j \in 1..n : i # j => f[i] # f[j]}

\* the hashString of This and of the Basis other, which This then becomes
Compared(op, args, other) ==
    /\ last.op = "constructor"
    /\ Becomes(hashString(other).this)
    /\ Did(op, args, [before |-> hashString(This).result,
                      after |-> hashString(other).result])
    /\ Rest

\* a second Basis with the atoms of This in the order perm
Permute ==
    \E perm \in Orders(Len(elements)) :
        Compared("permute", perm,
                 Basis([elements |-> [i \in 1..Len(elements) |-> elements[perm[i]].value],
                        coordinates |->
                            [i \in 1..Len(elements) |-> coordinates[perm[i]].value],
                        units |-> units, cell |-> cell, isEmpty |-> FALSE]))

\* a second Basis with component j of coordinate i changed by d
ChangeCoordinate ==
    \E i \in 1..Len(coordinates), j \in 1..3, d \in Deltas :
        Compared("changeCoordinate", <<i, j, d>>,
                 Basis([elements |-> array(elements),
                        coordinates |->
                            [array(coordinates) EXCEPT ![i][j] = @ + d],
                        units |-> units, cell |-> cell, isEmpty |-> FALSE]))

\* a second Basis with the element of atom i changed to e
ChangeElement ==
    \E i \in 1..Len(elements), e \in Symbols :
        /\ e # elements[i].value
        /\ Compared("changeElement", <<i, e>>,
                    Basis([elements |-> [array(elements) EXCEPT ![i] = e],
                           coordinates |-> array(coordinates),
                           units |-> units, cell |-> cell, isEmpty |-> FALSE]))

NextHash ==
    \/ Permute
    \/ ChangeCoordinate
    \/ ChangeElement

SpecHash == InitHash /\ [][NextHash]_vars

(***************************************************************************)
(* Material: a record [isNonPeriodic, derivedProperties, lattice]; its     *)
(* basis is the Basis of the state                                         *)
(***************************************************************************)
MissingInChI == "Hash cannot be created. Missing InChI string in derivedProperties"

Throws(message) == [threw |-> TRUE, value |-> message]

\* get Material.isNonPeriodic: the property (<<>> when it is not set, <<bool>>
\* when it is), false when it is not set
isNonPeriodic(m) == IF m.isNonPeriodic = <<>> THEN FALSE ELSE m.isNonPeriodic[1]

\* Material.getDerivedProperties
getDerivedProperties(m) == m.derivedProperties

\* Material.getDerivedPropertyByName: the entries of that name, first first
getDerivedPropertyByName(m, name) ==
    SelectSeq(getDerivedProperties(m), LAMBDA x : x.name = name)

\* Material.getInchiStringForHash
getInchiStringForHash(m) ==
    LET inchi == getDerivedPropertyByName(m, "inchi")
    IN  IF Len(inchi) > 0 THEN Returned(inchi[1].value) ELSE Throws(MissingInChI)

\* Lattice.getHashString(isScaled): the six cell parameters, the lengths
\* divided by a when isScaled
getHashString(l, isScaled) ==
    IF isScaled
    THEN <<Den, RoundDiv(l.b * Den, l.a), RoundDiv(l.c * Den, l.a),
           l.alpha, l.beta, l.gamma>>
    ELSE <<l.a, l.b, l.c, l.alpha, l.beta, l.gamma>>

\* CryptoJS.MD5(message).toString(): a digest that stands for its message
MD5(message) == [md5 |-> message]

\* calculateHash that hashes basis and lattice when no InChI is stored
calculateHash_FallsBack(m, b, salt, isScaled, bypassNonPeriodicCheck) ==
    LET h == hashString(b).result
        geometric ==
            IF h.threw THEN h
            ELSE Returned(MD5(<<h.value, "#", getHashString(m.lattice, isScaled),
                                "#", salt>>))
    IN  IF ~isNonPeriodic(m) \/ bypassNonPeriodicCheck THEN geometric
        ELSE IF getInchiStringForHash(m).threw THEN geometric
        ELSE Returned(MD5(getInchiStringForHash(m).value))

\* Material.calculateHash, b being the Basis made of the material's basis
calculateHash(m, b, salt, isScaled, bypassNonPeriodicCheck) ==
    LET h == hashString(b).result
    IN  IF ~isNonPeriodic(m) \/ bypassNonPeriodicCheck
        THEN IF h.threw THEN h
             ELSE Returned(MD5(<<h.value, "#", getHashString(m.lattice, isScaled),
                                 "#", salt>>))
        ELSE IF getInchiStringForHash(m).threw THEN getInchiStringForHash(m)
        ELSE Returned(MD5(getInchiStringForHash(m).value))

DerivedProperties ==
    {[name |-> "inchi", value |-> "InChI=1S/H2O/h1H2"],
     [name |-> "inchi_key", value |-> "XLYOFNOQVPJJNP-UHFFFAOYSA-N"]}

Lattices ==
    {[a |-> 38670, b |-> 38670, c |-> 38670, alpha |-> 60, beta |-> 60, gamma |-> 60],
     [a |-> 50000, b |-> 50000, c |-> 70000, alpha |-> 90, beta |-> 90, gamma |-> 90]}

Materials ==
    [isNonPeriodic : {<<>>, <<TRUE>>, <<FALSE>>},
     derivedProperties : SeqsUpTo(DerivedProperties, MaxProperties),
     lattice : Lattices]

InitMaterial ==
    /\ \E cfg \in ValidConfigs :
          /\ cfg.units = crystal
          /\ ~cfg.isEmpty
          /\ Len(cfg.elements) = MaxAtoms
          /\ cfg.elements[1] = "Si"
          /\ Constructed(cfg)
    /\ tasks = NoTasks
    /\ material \in Materials

\* set Material.isNonPeriodic
SetIsNonPeriodic ==
    \E bool \in BOOLEAN :
        /\ last.n < MaxSteps
        /\ material' = [material EXCEPT !.isNonPeriodic = <<bool>>]
        /\ Did("isNonPeriodic", <<bool>>, Returned(<<>>))
        /\ UNCHANGED <<elements, coordinates, units, cell, tasks>>

CalculateHash ==
    \E salt \in {"", "salt"}, isScaled \in BOOLEAN, bypassNonPeriodicCheck \in BOOLEAN :
        /\ last.n < MaxSteps
        /\ Did("calculateHash", <<salt, isScaled, bypassNonPeriodicCheck>>,
               calculateHash(material, This, salt, isScaled, bypassNonPeriodicCheck))
        /\ UNCHANGED <<elements, coordinates, units, cell, tasks, material>>

NextMaterial ==
    \/ SetIsNonPeriodic
    \/ CalculateHash

SpecMaterial == InitMaterial /\ [][NextMaterial]_vars

(***************************************************************************)
(* The reads that convert and restore, step by step, two at a time on one  *)
(* Basis.  A call records the units, converts in place, computes, restores.*)
(***************************************************************************)
Tasks == {"first", "second"}

\* the units the call converts the Basis to
Target(op) == IF op = "maxPairwiseDistance" THEN cartesian ELSE crystal

\* the conversion in place each read starts with
Convert(op, b) ==
    IF op = "hashString" THEN toCrystal(b)
    ELSE IF op = "standardRepresentation" THEN toStandardRepresentation(b)
    ELSE toCartesian(b)

\* what the read computes on the converted Basis
Compute(op, b) ==
    IF op = "hashString" THEN getAsSortedString(b)
    ELSE IF op = "standardRepresentation" THEN Returned(toJSON(b))
    ELSE Returned(precise(maxDistance(b), 1))

\* a restore that converts back whatever units were recorded
Restore_Always(op, b, originalUnits) ==
    IF op = "maxPairwiseDistance" THEN toCrystal(b) ELSE toCartesian(b)

\* "preserve the original state": the conversion back, by the units recorded
Restore(op, b, originalUnits) ==
    IF op = "hashString"
    THEN IF originalUnits = cartesian THEN toCartesian(b) ELSE b
    ELSE IF op = "standardRepresentation"
    THEN IF originalUnits # crystal THEN toCartesian(b) ELSE b
    ELSE IF originalUnits # cartesian THEN toCrystal(b) ELSE b

InFlight(t) == tasks[t].pc \in {"convert", "compute", "restore"}

ConcConfigs ==
    {c \in ValidConfigs : ~c.isEmpty /\ c.units # Undefined /\ Len(c.elements) > 0}

InitConc ==
    /\ \E cfg \in ConcConfigs : Constructed(cfg)
    /\ tasks \in [Tasks -> {[op |-> op, pc |-> "record", originalUnits |-> Undefined,
                             computedIn |-> Undefined, result |-> Returned(<<>>),
                             alone |-> TRUE] : op \in Reads}]
    /\ material = NoMaterial

\* const originalUnits = this.units
RecordUnits(t) ==
    /\ tasks[t].pc = "record"
    /\ tasks' = [u \in Tasks |->
                    IF u = t
                    THEN [tasks[t] EXCEPT !.pc = "convert", !.originalUnits = units,
                                          !.alone = \A v \in Tasks \ {t} : ~InFlight(v)]
                    ELSE [tasks[u] EXCEPT !.alone = @ /\ ~InFlight(u)]]
    /\ UNCHANGED <<elements, coordinates, units, cell, last, material>>

\* this.toCrystal(), this.toStandardRepresentation() or this.toCartesian()
ConvertInPlace(t) ==
    /\ tasks[t].pc = "convert"
    /\ Becomes(Convert(tasks[t].op, This))
    /\ tasks' = [tasks EXCEPT ![t].pc = "compute"]
    /\ UNCHANGED <<last, material>>

\* the result is computed from the object as it is now
ComputeResult(t) ==
    /\ tasks[t].pc = "compute"
    /\ tasks' = [tasks EXCEPT ![t].pc = "restore", ![t].computedIn = units,
                              ![t].result = Compute(tasks[t].op, This)]
    /\ UNCHANGED <<elements, coordinates, units, cell, last, material>>

\* the conversion back
RestoreUnits(t) ==
    /\ tasks[t].pc = "restore"
    /\ Becomes(Restore(tasks[t].op, This, tasks[t].originalUnits))
    /\ tasks' = [tasks EXCEPT ![t].pc = "done"]
    /\ UNCHANGED <<last, material>>

NextConc ==
    \E t \in Tasks :
        \/ RecordUnits(t)
        \/ ConvertInPlace(t)
        \/ ComputeResult(t)
        \/ RestoreUnits(t)

SpecConc == InitConc /\ [][NextConc]_vars

(***************************************************************************)
(* Properties                                                              *)
(***************************************************************************)
\* C1: after any sequence of addAtom, removeAtom, removeAtomAtCoordinate,
\* toCartesian, toCrystal, toStandardRepresentation and translateByVector
\* calls on a Basis constructed with equally long lists, the number of
\* elements equals the number of coordinates.
C1_LengthsStayEqual == Len(elements) = Len(coordinates)

\* C2: reading standardRepresentation leaves the units flag and every stored
\* coordinate as they were before the read.
C2_StandardRepresentationHasNoSideEffect ==
    last.op = "standardRepresentation" =>
        /\ units = last.pre.units
        /\ coordinates = last.pre.coordinates

\* C3: after any sequence of reads of hashString, standardRepresentation and
\* maxPairwiseDistance made one after the other, the units flag is the one
\* the Basis had before the first of them.
C3_ReadsRestoreUnits == last.op \in Reads => units = last.first.units

\* C7: after toStandardRepresentation the units flag is crystal and every
\* component of every coordinate lies in [0, 1).
C7_StandardRepresentationWraps ==
    last.op = "toStandardRepresentation" =>
        /\ units = crystal
        /\ \A i \in 1..Len(coordinates) :
              \A j \in 1..3 :
                  0 <= coordinates[i].value[j] /\ coordinates[i].value[j] < Den

\* a toStandardRepresentation call on a Basis in cartesian units that held a
\* negative component and a component of at least one cell
C7_Witness ==
    /\ last.op = "toStandardRepresentation"
    /\ last.pre.units = cartesian
    /\ \E i \in 1..Len(last.pre.coordinates) :
          \E j \in 1..3 : last.pre.coordinates[i].value[j] < 0
    /\ \E i \in 1..Len(last.pre.coordinates) :
          \E j \in 1..3 : last.pre.coordinates[i].value[j] >= 3 * Den

\* the two coordinate lists agree within the numeric tolerance
Close(cs, ds) ==
    /\ Len(cs) = Len(ds)
    /\ \A i \in 1..Len(cs) :
          \A j \in 1..3 : Abs(cs[i].value[j] - ds[i].value[j]) <= tolerance

\* C9: toCartesian then toCrystal on a Basis in crystal units, and toCrystal
\* then toCartesian on a Basis in cartesian units, leave the units flag as it
\* was and every coordinate within the numeric tolerance of its original
\* value; converting to the unit system the Basis is in changes nothing.
C9_ConversionRoundTrips ==
    /\ (last.op = "toCrystal" /\ last.prev = "toCartesian"
            /\ last.pre2.units = crystal) =>
          units = crystal /\ Close(coordinates, last.pre2.coordinates)
    /\ (last.op = "toCartesian" /\ last.prev = "toCrystal"
            /\ last.pre2.units = cartesian) =>
          units = cartesian /\ Close(coordinates, last.pre2.coordinates)
    /\ (last.op = "toCartesian" /\ last.pre.units = cartesian) =>
          units = cartesian /\ coordinates = last.pre.coordinates
    /\ (last.op = "toCrystal" /\ last.pre.units = crystal) =>
          units = crystal /\ coordinates = last.pre.coordinates

\* a round trip from cartesian units through crystal units that comes back
\* to coordinates close to, and not equal to, the original ones
C9_Witness ==
    /\ last.op = "toCartesian"
    /\ last.prev = "toCrystal"
    /\ last.pre2.units = cartesian
    /\ Len(coordinates) > 0
    /\ coordinates # last.pre2.coordinates

\* C10: the constructor produces no Basis whose element list and coordinate
\* list have different lengths.
C10_ConstructorRejectsMismatch ==
    last.op = "constructor" => Len(elements) = Len(coordinates)

\* C6: a Basis and the Basis with its elements and coordinates permuted the
\* same way have the same hashString.
C6_HashStringPermutationInvariant ==
    last.op = "permute" => last.result.before = last.result.after

\* two different atoms exchanged, in cartesian units
C6_Witness ==
    /\ last.op = "permute"
    /\ Len(last.args) = 2
    /\ last.args[1] = 2
    /\ last.pre.units = cartesian
    /\ last.pre.elements[1].value # last.pre.elements[2].value
    /\ last.pre.coordinates[1].value # last.pre.coordinates[2].value
    /\ ~last.result.before.threw

ToNearestPeriod(d) ==
    IF d % Den <= Den - (d % Den) THEN d % Den ELSE Den - (d % Den)

InchiMissing(args) ==
    /\ isNonPeriodic(material)
    /\ ~args[3]
    /\ \A i \in 1..Len(material.derivedProperties) :
          material.derivedProperties[i].name # "inchi"

\* C5: calculateHash fails with the missing-InChI error exactly when
\* isNonPeriodic is true, bypassNonPeriodicCheck is false and no derived
\* property is named "inchi"; it then returns no hash, and in every other
\* case it returns a hash.
C5_HashFailsExactlyWithoutInchi ==
    last.op = "calculateHash" =>
        /\ InchiMissing(last.args) <=>
              (last.result.threw /\ last.result.value = MissingInChI)
        /\ ~InchiMissing(last.args) => ~last.result.threw

\* the hash of a non-periodic material that stores a property, not an InChI
C5_Witness ==
    /\ last.op = "calculateHash"
    /\ isNonPeriodic(material)
    /\ Len(material.derivedProperties) > 0
    /\ last.result.threw
    /\ last.result.value = MissingInChI

AllDone == \A t \in Tasks : tasks[t].pc = "done"

Computed(t) == tasks[t].pc \in {"restore", "done"}

\* C4, the part a run can break: a call that does not overlap another one
\* computes in the units it switched to, and when neither call overlapped
\* the other the Basis ends in the units it began with.
C4_OnlyOverlappingCallsInterfere ==
    /\ \A t \in Tasks :
          (Computed(t) /\ tasks[t].alone) => tasks[t].computedIn = Target(tasks[t].op)
    /\ (AllDone /\ \A t \in Tasks : tasks[t].alone) => units = last.pre.units

\* C4, the interleaving it claims: both calls are done, one of them computed
\* in units other than the ones it switched to, and the Basis is left in
\* units other than the ones it began with.
C4_Witness ==
    /\ AllDone
    /\ \E t \in Tasks : tasks[t].computedIn # Target(tasks[t].op)
    /\ units # last.pre.units

\* the removeAtom and removeAtomAtCoordinate calls
Removals == {"removeAtom", "removeAtomAtCoordinate"}

\* C11: removeAtom called with only an id, of an existing atom, removes the
\* element and the coordinate of that atom: one atom fewer, the id gone.
C11_RemoveAtomByIdAlone ==
    (/\ last.op = "removeAtom"
     /\ last.args[1] = Undefined
     /\ last.args[2] = <<>>
     /\ last.args[3] # NoId
     /\ last.args[3][1] \in ids(last.pre.elements)
     /\ last.args[3][1] \in ids(last.pre.coordinates)) =>
        /\ Len(elements) = Len(last.pre.elements) - 1
        /\ Len(coordinates) = Len(last.pre.coordinates) - 1
        /\ last.args[3][1] \notin ids(elements) \cup ids(coordinates)

\* the (element, coordinate) pairs of a Basis with equally long lists
Pairs(b) == [i \in 1..Len(b.elements) |-> <<b.elements[i].value, b.coordinates[i].value>>]

\* C15: a removeAtom or removeAtomAtCoordinate call that removes an element
\* and a coordinate removes them at one and the same position: the pairs left
\* are the pairs before the call with one of them deleted.
C15_RemovalPreservesPairing ==
    (/\ last.op \in Removals
     /\ Len(last.pre.elements) = Len(last.pre.coordinates)
     /\ Len(elements) = Len(last.pre.elements) - 1
     /\ Len(coordinates) = Len(last.pre.coordinates) - 1) =>
        \E k \in 1..Len(last.pre.elements) :
            Pairs(This) = RemoveAt(Pairs(last.pre), k)

\* no coordinate stored before the last call is within the tolerance of c
NoneNear(c) ==
    \A i \in 1..Len(last.pre.coordinates) :
        ~roundToZeroIsZero(vDist(last.pre.coordinates[i].value, c))

\* the last call was a removeAtomAtCoordinate whose coordinate is near no
\* stored one
CoordinateNotFound ==
    /\ last.op = "removeAtomAtCoordinate"
    /\ Len(last.args[1]) > 0
    /\ NoneNear(last.args[1])

\* the last call was a removeAtom whose element is no stored element and whose
\* coordinate is no stored coordinate or, with an id, whose id is no stored id
AtomNotFound ==
    /\ last.op = "removeAtom"
    /\ last.args[1] # Undefined
    /\ Len(last.args[2]) > 0
    /\ IF last.args[3] = NoId
       THEN /\ last.args[1] \notin values(last.pre.elements)
            /\ last.args[2] \notin values(last.pre.coordinates)
       ELSE last.args[3][1] \notin ids(last.pre.elements) \cup ids(last.pre.coordinates)

C12_WitnessAtom ==
    /\ AtomNotFound
    /\ last.args[3] = NoId
    /\ Len(last.pre.elements) > 0
    /\ Len(last.pre.coordinates) > 0
    /\ Len(elements) = Len(last.pre.elements)

(***************************************************************************)
(* The element counts and formulas of a Basis, read after its construction *)
(***************************************************************************)
\* every element list up to the bound, each atom at a coordinate of its own
CountsConfigs ==
    {[elements |-> els,
      coordinates |-> [i \in 1..Len(els) |-> <<i, 0, 0>>],
      units |-> crystal,
      cell |-> << <<3, 0, 0>>, <<0, 3, 0>>, <<0, 0, 3>> >>,
      isEmpty |-> FALSE] : els \in SeqsUpTo(FormulaSymbols, MaxElements)}

InitCounts ==
    /\ \E cfg \in CountsConfigs : Constructed(cfg)
    /\ tasks = NoTasks
    /\ material = NoMaterial

ElementCounts ==
    /\ last.n < MaxSteps
    /\ Did("elementCounts", <<>>, Returned(elementCounts(This)))
    /\ UNCHANGED <<elements, coordinates, units, cell>>
    /\ Rest

Formula ==
    /\ last.n < MaxSteps
    /\ Did("formula", <<>>, Returned(formula(This)))
    /\ UNCHANGED <<elements, coordinates, units, cell>>
    /\ Rest

UnitCellFormula ==
    /\ last.n < MaxSteps
    /\ Did("unitCellFormula", <<>>, Returned(unitCellFormula(This)))
    /\ UNCHANGED <<elements, coordinates, units, cell>>
    /\ Rest

NextCounts == ElementCounts \/ Formula \/ UnitCellFormula

SpecCounts == InitCounts /\ [][NextCounts]_vars

RECURSIVE Expand(_)
\* every entry of the counts written out as count copies of its value
Expand(counts) ==
    IF Len(counts) = 0 THEN <<>>
    ELSE [i \in 1..counts[1].count |-> counts[1].value] \o Expand(Tail(counts))

\* C13: elementCounts is the run-length encoding of the element list: no two
\* consecutive entries have the same value, every count is at least 1, and
\* the entries written out as count copies of their values are the element
\* list (so an element that recurs after another one has an entry for each
\* of its runs).
C13_ElementCountsIsRunLengthEncoding ==
    last.op = "elementCounts" =>
        LET r == last.result.value
        IN  /\ \A k \in 1..(Len(r) - 1) : r[k].value # r[k + 1].value
            /\ \A k \in 1..Len(r) : r[k].count >= 1
            /\ Expand(r) = array(elements)

\* an element list of four runs over two symbols, as Zr, H, Zr, H
C13_Witness ==
    /\ last.op = "elementCounts"
    /\ Len(last.result.value) = 4
    /\ last.result.value[1].value = last.result.value[3].value
    /\ last.result.value[2].value = last.result.value[4].value

\* how many atoms of the Basis are of element e
Count(e) == Cardinality({i \in 1..Len(elements) : elements[i].value = e})

Present == {e \in FormulaSymbols : Count(e) > 0}

\* the greatest number dividing the count of every element present
Divisor ==
    CHOOSE d \in 1..Len(elements) :
        /\ \A e \in Present : Count(e) % d = 0
        /\ \A c \in 1..Len(elements) : (\A e \in Present : Count(e) % c = 0) => c <= d

\* e comes before f: by electronegativity, then by symbol
Precedes(e, f) ==
    \/ getElectronegativity(e) < getElectronegativity(f)
    \/ /\ getElectronegativity(e) = getElectronegativity(f)
       /\ StrLess(SymbolChars(e), SymbolChars(f))

\* the elements present, in that order
InOrder ==
    CHOOSE seq \in [1..Cardinality(Present) -> Present] :
        \A i, j \in 1..Cardinality(Present) : i < j => Precedes(seq[i], seq[j])

\* every element present, in order, followed by its count divided by d, and
\* by nothing when that is 1
Rendered(d) ==
    reduce([k \in 1..Cardinality(Present) |->
               SymbolChars(InOrder[k])
                   \o (IF Count(InOrder[k]) \div d = 1 THEN <<>>
                       ELSE Digits(Count(InOrder[k]) \div d))])

C14_WitnessTie ==
    /\ last.op = "formula"
    /\ array(elements) = <<"Si", "Cu">>
    /\ last.result.value = SymbolChars("Cu") \o SymbolChars("Si")

(***************************************************************************)
(* Material: its basis and the formulas it stores.  The variables elements, *)
(* coordinates, units and cell hold the stored basis as this.Basis reads it *)
(* (with the cell of the lattice); material holds the stored formulas and   *)
(* the constraints of the basis.                                           *)
(***************************************************************************)
\* a stored property: <<>> when it is not set, <<value>> when it is
NotSet == <<>>

\* new ConstrainedBasis({...this.basis, cell}), for a basis config whose
\* elements and coordinates carry ids
ConstrainedBasis(cfg, unitCell) ==
    [elements |-> IF cfg.isEmpty THEN <<>> ELSE cfg.elements,
     coordinates |-> IF cfg.isEmpty THEN <<>> ELSE cfg.coordinates,
     units |-> IF cfg.units = Undefined THEN crystal ELSE cfg.units,
     cell |-> unitCell]

\* Material.updateFormula
updateFormula(m, b) ==
    [m EXCEPT !.formula = <<formula(b)>>, !.unitCellFormula = <<unitCellFormula(b)>>]

\* get Material.formula: the stored formula unless it is not set or empty
Material_formula(m, b) ==
    IF m.formula # NotSet /\ m.formula[1] # <<>> THEN m.formula[1] ELSE formula(b)

\* get Material.unitCellFormula
Material_unitCellFormula(m, b) ==
    IF m.unitCellFormula # NotSet /\ m.unitCellFormula[1] # <<>>
    THEN m.unitCellFormula[1]
    ELSE unitCellFormula(b)

\* parsers.xyz.toBasisConfig(text, units), for a text held as its lines
toBasisConfig(text, unitz) ==
    [elements |-> ArrayWithIds([i \in 1..Len(text) |-> text[i].element]),
     coordinates |-> ArrayWithIds([i \in 1..Len(text) |-> text[i].coordinate]),
     units |-> unitz,
     isEmpty |-> FALSE,
     constraints |-> <<>>]

\* setBasis without its call of updateFormula
setBasis_NoUpdateFormula(m, b, textOrObject, format, unitz) ==
    LET basis == IF format = "xyz" THEN toBasisConfig(textOrObject, unitz)
                 ELSE textOrObject
    IN  [basis |-> ConstrainedBasis(basis, b.cell),
         material |-> [m EXCEPT !.constraints = basis.constraints]]

\* Material.setBasis: the stored basis and the material afterwards
setBasis(m, b, textOrObject, format, unitz) ==
    LET basis == IF format = "xyz" THEN toBasisConfig(textOrObject, unitz)
                 ELSE textOrObject
        stored == ConstrainedBasis(basis, b.cell)
    IN  [basis |-> stored,
         material |-> updateFormula([m EXCEPT !.constraints = basis.constraints], stored)]

\* Material.setBasisConstraints
setBasisConstraints(m, b, constraints) ==
    setBasis(m, b,
             [elements |-> b.elements, coordinates |-> b.coordinates,
              units |-> b.units, isEmpty |-> FALSE, constraints |-> constraints],
             Undefined, Undefined)

\* Material.toCrystal: the basis stored afterwards
Material_toCrystal(m, b) == toJSON(toCrystal(b))

\* Material.toCartesian: the basis stored afterwards
Material_toCartesian(m, b) == toJSON(toCartesian(b))

\* the basis configs a Material is given: every element list up to the bound
\* in either units, one without units and one marked empty
BasisConfigs ==
    LET At(els) == [i \in 1..Len(els) |-> <<2500 * i, 2500, 5004>>]
        Of(els, u, e) == [elements |-> ArrayWithIds(els),
                          coordinates |-> ArrayWithIds(At(els)),
                          units |-> u, isEmpty |-> e, constraints |-> <<>>]
    IN  {Of(els, u, FALSE) : els \in SeqsUpTo(Symbols, MaxAtoms), u \in ATOMIC_COORD_UNITS}
            \cup {Of(<<"Ge">>, Undefined, FALSE), Of(<<"Si">>, crystal, TRUE)}

\* an xyz text of two lines
XyzTexts ==
    {<<[element |-> "Ge", coordinate |-> <<2500, 2500, 2500>>],
       [element |-> "Ge", coordinate |-> <<5000, 2500, 2500>>]>>}

\* new Material(config): the formulas are not stored, or are stored as a
\* setBasis of the same basis has left them
InitMaterialBasis ==
    \E cfg \in BasisConfigs, isStored \in BOOLEAN :
        LET b == ConstrainedBasis(cfg, << <<1, 1, 0>>, <<0, 1, 0>>, <<0, 0, 1>> >>)
            m == [formula |-> NotSet, unitCellFormula |-> NotSet,
                  constraints |-> cfg.constraints]
        IN  /\ elements = b.elements
            /\ coordinates = b.coordinates
            /\ units = b.units
            /\ cell = b.cell
            /\ material = IF isStored THEN updateFormula(m, b) ELSE m
            /\ tasks = NoTasks
            /\ last = [op |-> "constructor", args |-> cfg, pre |-> Snapshot(b),
                       result |-> Returned(<<>>), prev |-> "constructor",
                       pre2 |-> Snapshot(b), first |-> Snapshot(b), n |-> 0]

SetBasis ==
    /\ last.n < MaxSteps
    /\ \/ \E cfg \in {c \in BasisConfigs : c.units # cartesian} :
             /\ Becomes(setBasis(material, This, cfg, Undefined, Undefined).basis)
             /\ material' = setBasis(material, This, cfg, Undefined, Undefined).material
             /\ Did("setBasis", <<cfg, Undefined, Undefined>>, Returned(<<>>))
       \/ \E text \in XyzTexts, unitz \in {cartesian} :
             /\ Becomes(setBasis(material, This, text, "xyz", unitz).basis)
             /\ material' = setBasis(material, This, text, "xyz", unitz).material
             /\ Did("setBasis", <<text, "xyz", unitz>>, Returned(<<>>))
    /\ UNCHANGED tasks

SetBasisConstraints ==
    \E fixed \in BOOLEAN :
        LET constraints == [i \in 1..Len(elements) |->
                               [id |-> elements[i].id, value |-> <<fixed, fixed, TRUE>>]]
        IN  /\ last.n < MaxSteps
            /\ Becomes(setBasisConstraints(material, This, constraints).basis)
            /\ material' = setBasisConstraints(material, This, constraints).material
            /\ Did("setBasisConstraints", <<constraints>>, Returned(<<>>))
            /\ UNCHANGED tasks

MaterialToCrystal ==
    /\ last.n < MaxSteps
    /\ Becomes(Material_toCrystal(material, This))
    /\ Did("Material.toCrystal", <<>>, Returned(<<>>))
    /\ UNCHANGED <<tasks, material>>

MaterialToCartesian ==
    /\ last.n < MaxSteps
    /\ Becomes(Material_toCartesian(material, This))
    /\ Did("Material.toCartesian", <<>>, Returned(<<>>))
    /\ UNCHANGED <<tasks, material>>

NextMaterialBasis ==
    \/ SetBasis
    \/ SetBasisConstraints
    \/ MaterialToCrystal
    \/ MaterialToCartesian

SpecMaterialBasis == InitMaterialBasis /\ [][NextMaterialBasis]_vars

\* C16: after any sequence of setBasis, setBasisConstraints, toCrystal and
\* toCartesian calls, the formula and the unitCellFormula a Material reports
\* are those computed from the elements of its current basis.
C16_MaterialFormulaNeverStale ==
    /\ Material_formula(material, This) = formula(This)
    /\ Material_unitCellFormula(material, This) = unitCellFormula(This)

\* a setBasis that changed the elements to one Si and one Ge, then a
\* conversion to cartesian: the stored formula is "SiGe"
C16_Witness ==
    /\ last.op = "Material.toCartesian"
    /\ last.prev = "setBasis"
    /\ array(last.pre2.elements) # array(elements)
    /\ units # last.pre.units
    /\ material.formula = <<SymbolChars("Si") \o SymbolChars("Ge")>>

====
